---- MODULE Spec2Model ----
(***************************************************************************)
(* A model of package downloader (downloader.go) and of the download       *)
(* command that drives it: format selection, the streaming copy of one     *)
(* format into a file, and the composite (video + audio + ffmpeg) download *)
(* with its temporary files.                                               *)
(***************************************************************************)
EXTENDS Integers, Sequences, FiniteSets, TLC

VARIABLES
    Formats,          \* v.Formats: the format catalog of the video
    OutputDir,        \* dl.OutputDir
    ffmpegInstalled,  \* whether exec can find and start "ffmpeg"
    fs,               \* the file system: path -> bytes of the file
    dirs,             \* directories created by os.MkdirAll
    muxerCalls,       \* the ffmpeg merge commands run so far
    task,             \* per task: arguments, position and locals of the call
    sel               \* the last call of a selection function on its own

vars == <<Formats, OutputDir, ffmpegInstalled, fs, dirs, muxerCalls, task, sel>>

-----------------------------------------------------------------------------
(* Bounds *)

\* longest source stream, in bytes
MaxStreamLen == 2
\* how many distinct names os.CreateTemp can draw for one pattern
NumTempNames == 2
\* longest catalog the selection functions are applied to on their own
MaxCatalog == 3

-----------------------------------------------------------------------------
(* youtube.Format and youtube.FormatList *)

Mime(c, s) == [class |-> c, subtype |-> s]

Fmt(i, c, s, q, ch, b) ==
    [itag |-> i, mime |-> Mime(c, s), quality |-> q, audioChannels |-> ch, bitrate |-> b]

\* the nil *youtube.Format
NoFormat == Fmt(0, "", "", "", 0, 0)

f18  == Fmt(18,  "video", "mp4",  "medium", 2, 1)
f136 == Fmt(136, "video", "mp4",  "hd720",  0, 2)
f137 == Fmt(137, "video", "mp4",  "hd1080", 0, 3)
f248 == Fmt(248, "video", "webm", "hd1080", 0, 3)
f140 == Fmt(140, "audio", "mp4",  "tiny",   2, 1)
f251 == Fmt(251, "audio", "webm", "tiny",   2, 2)

FormatUniverse == {f18, f136, f137, f248, f140, f251}

Qualities == {"", "hd1080", "hd720", "medium"}
MimeTypes == {"", "mp4", "webm", "video"}
Itags == {18, 137, 140, 99}

\* FormatList.Type: the formats whose MIME type names t
Type(list, t) ==
    LET Keep(f) == f.mime.class = t \/ f.mime.subtype = t
    IN  SelectSeq(list, Keep)

\* FormatList.AudioChannels: the formats with exactly n audio channels
AudioChannels(list, n) ==
    LET Keep(f) == f.audioChannels = n
    IN  SelectSeq(list, Keep)

\* FormatList.Quality: the formats of that quality
Quality(list, quality) ==
    LET Keep(f) == f.quality = quality
    IN  SelectSeq(list, Keep)

RECURSIVE InsertFormat(_, _)
\* f placed after every format of sorted that ranks at least as high
InsertFormat(f, sorted) ==
    IF sorted = <<>> THEN <<f>>
    ELSE IF Head(sorted).bitrate >= f.bitrate
         THEN <<Head(sorted)>> \o InsertFormat(f, Tail(sorted))
         ELSE <<f>> \o sorted

RECURSIVE SortFrom(_, _)
SortFrom(list, sorted) ==
    IF list = <<>> THEN sorted
    ELSE SortFrom(Tail(list), InsertFormat(Head(list), sorted))

\* FormatList.Sort: a stable sort, highest bitrate first
Sort(list) == SortFrom(list, <<>>)

RECURSIVE FindByItag(_, _)
\* FormatList.FindByItag: the first format with that itag, or nil
FindByItag(list, itagNo) ==
    IF list = <<>> THEN NoFormat
    ELSE IF Head(list).itag = itagNo THEN Head(list)
    ELSE FindByItag(Tail(list), itagNo)

-----------------------------------------------------------------------------
(* Errors: an error value is its message *)

Err(m) == [kind |-> "error", msg |-> m]
Nil == [kind |-> "nil", msg |-> ""]
\* no value yet: the call has not returned
Pending == [kind |-> "pending", msg |-> ""]

ErrNoVideoFormat == Err("no video format found after filtering")
ErrNoAudioFormat == Err("no audio format found after filtering")
ErrFormatByItag  == Err("no audio format found")

-----------------------------------------------------------------------------
(* getVideoAudioFormats and getFormatByItag *)

videoCandidates(formats, quality, mimetype) ==
    LET narrowed == IF mimetype # "" THEN Type(formats, mimetype) ELSE formats
        videoFormats == AudioChannels(Type(narrowed, "video"), 0)
    IN  IF quality # "" THEN Quality(videoFormats, quality) ELSE videoFormats

audioCandidates(formats, mimetype) ==
    LET narrowed == IF mimetype # "" THEN Type(formats, mimetype) ELSE formats
    IN  Type(narrowed, "audio")

\* (a variant that leaves out AudioChannels(0))
getVideoAudioFormats_AnyChannels(formats, quality, mimetype) ==
    LET narrowed == IF mimetype # "" THEN Type(formats, mimetype) ELSE formats
        all == Type(narrowed, "video")
        videoFormats == IF quality # "" THEN Quality(all, quality) ELSE all
        audioFormats == audioCandidates(formats, mimetype)
        videoFormat == IF Len(videoFormats) > 0 THEN Sort(videoFormats)[1] ELSE NoFormat
        audioFormat == IF Len(audioFormats) > 0 THEN Sort(audioFormats)[1] ELSE NoFormat
    IN  IF videoFormat = NoFormat
        THEN [video |-> NoFormat, audio |-> NoFormat, err |-> ErrNoVideoFormat]
        ELSE IF audioFormat = NoFormat
        THEN [video |-> NoFormat, audio |-> NoFormat, err |-> ErrNoAudioFormat]
        ELSE [video |-> videoFormat, audio |-> audioFormat, err |-> Nil]

\* (a variant that looks at audioFormat before videoFormat)
getVideoAudioFormats_AudioFirst(formats, quality, mimetype) ==
    LET videoFormats == videoCandidates(formats, quality, mimetype)
        audioFormats == audioCandidates(formats, mimetype)
        videoFormat == IF Len(videoFormats) > 0 THEN Sort(videoFormats)[1] ELSE NoFormat
        audioFormat == IF Len(audioFormats) > 0 THEN Sort(audioFormats)[1] ELSE NoFormat
    IN  IF audioFormat = NoFormat
        THEN [video |-> NoFormat, audio |-> NoFormat, err |-> ErrNoAudioFormat]
        ELSE IF videoFormat = NoFormat
        THEN [video |-> NoFormat, audio |-> NoFormat, err |-> ErrNoVideoFormat]
        ELSE [video |-> videoFormat, audio |-> audioFormat, err |-> Nil]

getVideoAudioFormats(formats, quality, mimetype) ==
    LET videoFormats == videoCandidates(formats, quality, mimetype)
        audioFormats == audioCandidates(formats, mimetype)
        videoFormat == IF Len(videoFormats) > 0 THEN Sort(videoFormats)[1] ELSE NoFormat
        audioFormat == IF Len(audioFormats) > 0 THEN Sort(audioFormats)[1] ELSE NoFormat
    IN  IF videoFormat = NoFormat
        THEN [video |-> NoFormat, audio |-> NoFormat, err |-> ErrNoVideoFormat]
        ELSE IF audioFormat = NoFormat
        THEN [video |-> NoFormat, audio |-> NoFormat, err |-> ErrNoAudioFormat]
        ELSE [video |-> videoFormat, audio |-> audioFormat, err |-> Nil]

getFormatByItag(formats, itag) ==
    LET r == FindByItag(formats, itag)
    IN  IF r = NoFormat
        THEN [format |-> NoFormat, err |-> ErrFormatByItag]
        ELSE [format |-> r, err |-> Nil]

-----------------------------------------------------------------------------
(* The slices of the selection functions and the arrays behind them. A      *)
(* slice is known by the array it shares: v.Formats is the array "catalog", *)
(* a filter call (Type, AudioChannels, Quality) returns a list of its own.  *)

\* list.Sort() reorders, in place, the array behind the slice
SortSlice(mem, slice) == [mem EXCEPT ![slice] = Sort(@)]

\* the arrays at the end of getVideoAudioFormats, whatever it returns
ArraysOf(formats, quality, mimetype) ==
    LET m0 == [catalog |-> formats,
               narrowed |-> IF mimetype # "" THEN Type(formats, mimetype) ELSE <<>>,
               videoFormats |-> videoCandidates(formats, quality, mimetype),
               audioFormats |-> audioCandidates(formats, mimetype)]
        m1 == IF Len(m0.videoFormats) > 0 THEN SortSlice(m0, "videoFormats") ELSE m0
    IN  IF Len(m1.audioFormats) > 0 THEN SortSlice(m1, "audioFormats") ELSE m1

\* (a variant that sorts formats itself, the slice it filters)
Catalog_getVideoAudioFormats_SortFormats(formats, quality, mimetype) ==
    LET formatsSlice == IF mimetype # "" THEN "narrowed" ELSE "catalog"
    IN  SortSlice(ArraysOf(formats, quality, mimetype), formatsSlice).catalog

\* v.Formats when getVideoAudioFormats returns: "formats := v.Formats" shares
\* the catalog's array, and only videoFormats and audioFormats are sorted
Catalog_getVideoAudioFormats(formats, quality, mimetype) ==
    ArraysOf(formats, quality, mimetype).catalog

\* v.Formats when getFormatByItag returns: FindByItag only reads the list
Catalog_getFormatByItag(formats, itag) == formats

-----------------------------------------------------------------------------
(* Paths, files and handles *)

Path(d, s, i, e) == [dir |-> d, stem |-> s, id |-> i, ext |-> e]
NoPath == Path("", "", 0, "")

\* filepath.Dir of a path built by getOutputFile
Dir(p) == IF p.dir = "" THEN "." ELSE p.dir

\* pickIdealFileExtension: the extension for a MIME subtype, ".mov" when unknown
pickIdealFileExtension(mime) ==
    IF mime.subtype = "mp4" THEN ".mp4"
    ELSE IF mime.subtype = "webm" THEN ".webm"
    ELSE ".mov"

\* getOutputFile once os.MkdirAll has succeeded: the name given, or the
\* sanitized title with the format's extension, joined to dl.OutputDir
getOutputFile(format, outputFile) ==
    IF outputFile = ""
    THEN Path(OutputDir, "Title", 0, pickIdealFileExtension(format.mime))
    ELSE Path(OutputDir, outputFile, 0, "")

\* (a variant that opens the name without O_EXCL, in use or not)
TempCandidates_InUse(dir, ext) ==
    {Path(dir, "youtube_", i, ext) : i \in 1..NumTempNames}

\* the names os.CreateTemp(dir, "youtube_*" + ext) can return: those not in use
TempCandidates(dir, ext) ==
    {p \in {Path(dir, "youtube_", i, ext) : i \in 1..NumTempNames} : p \notin DOMAIN fs}

\* (a variant that opens an existing file without truncating it)
CreateFile_Keep(files, p) ==
    [q \in DOMAIN files \cup {p} |-> IF q \in DOMAIN files THEN files[q] ELSE <<>>]

\* os.Create and a successful os.CreateTemp: the file exists and is empty
CreateFile(files, p) == [q \in DOMAIN files \cup {p} |-> IF q = p THEN <<>> ELSE files[q]]

\* os.Remove of each path of ps (a path that is absent stays absent). The
\* error os.Remove returns is dropped by the code; the unlink is taken to
\* succeed, as it does for a file of one's own on a POSIX file system, open or not.
RemoveAll(files, ps) == [q \in DOMAIN files \ ps |-> files[q]]

\* (a variant that writes each chunk at the start of the file)
WriteFile_AtStart(files, p, chunk) ==
    IF p \in DOMAIN files THEN [files EXCEPT ![p] = chunk \o @] ELSE files

\* out.Write(chunk) through an open handle of p
WriteFile(files, p, chunk) ==
    IF p \in DOMAIN files THEN [files EXCEPT ![p] = @ \o chunk] ELSE files

ErrMkdirAll   == Err("mkdir: permission denied")
ErrCreate     == Err("open: permission denied")
ErrCreateTemp == Err("createtemp: permission denied")
ErrGetStream  == Err("unexpected status code")
ErrCanceled   == Err("context canceled")
ErrRead       == Err("unexpected EOF")
ErrWrite      == Err("write: no space left on device")
ErrNotFound   == Err("exec: ffmpeg: executable file not found in $PATH")
ErrExit       == Err("exit status 1")
ErrFFMPEG     == Err("please check ffmpegCheck is installed correctly")
ErrGetVideo   == Err("cannot fetch video metadata")
ErrAtoi       == Err("Invalid Itag number")

-----------------------------------------------------------------------------
(* One task: a call of Download, DownloadByItag or DownloadComposite, made  *)
(* directly ("api") or by the download command ("cli")                      *)

Tasks == {"t1", "t2"}

\* the state of one videoDLWorker call
NoWorker ==
    [role |-> "", out |-> NoPath, format |-> NoFormat, size |-> 0, read |-> <<>>,
     prog |-> 0, barTotal |-> 0, barCurrent |-> 0, barCompleted |-> FALSE, eof |-> FALSE,
     rendering |-> FALSE]

NewWorker(role, out, format) == [NoWorker EXCEPT !.role = role, !.out = out, !.format = format]

NewTask(entry, op, pc, outputFile, quality, mimetype, itagString, itag, format) ==
    [entry |-> entry, op |-> op, pc |-> pc,
     outputFile |-> outputFile, quality |-> quality, mimetype |-> mimetype,
     itagString |-> itagString, itag |-> itag, format |-> format,
     videoFormat |-> NoFormat, audioFormat |-> NoFormat,
     destFile |-> NoPath, videoFile |-> NoPath, audioFile |-> NoPath,
     handles |-> {}, truncated |-> FALSE, cancelled |-> FALSE, cancelledAt |-> "",
     ffmpegCheck |-> Nil,
     w |-> NoWorker, result |-> Pending, steps |-> <<>>, netRequests |-> 0]

IdleTask == NewTask("none", "none", "idle", "", "", "", "", 0, NoFormat)

\* the step just taken and the error it produced, appended to the task's history
\* (with the role of the videoDLWorker call, for a step inside it)
Step(s, name, e) ==
    LET role == IF name \in {"GetStreamContext", "Copy", "Wait"} THEN s.w.role ELSE ""
    IN  [s EXCEPT !.steps = Append(@, [step |-> name, role |-> role, err |-> e])]

-----------------------------------------------------------------------------
(* Returning from a task: the deferred calls run, last registered first *)

\* (a variant that registers the audio file only)
DeferredRemoves_AudioOnly(s) ==
    IF s.op = "DownloadComposite" THEN {s.audioFile} \ {NoPath} ELSE {}

\* the paths registered by "defer os.Remove(...)" so far
DeferredRemoves(s) ==
    IF s.op = "DownloadComposite" THEN {s.videoFile, s.audioFile} \ {NoPath} ELSE {}

\* the handles registered by "defer out.Close()" so far
DeferredCloses(s) ==
    IF s.op \in {"Download", "DownloadByItag"} THEN {"out"} ELSE {}

\* task t returns res from files: its deferred calls run and the call is over
Return(t, s, res, files) ==
    /\ task' = [task EXCEPT ![t] =
                   [s EXCEPT !.pc = "done", !.result = res,
                             !.handles = @ \ DeferredCloses(s)]]
    /\ fs' = RemoveAll(files, DeferredRemoves(s))

\* task t goes on at pc with locals s
Goto(t, s, pc) == task' = [task EXCEPT ![t] = [s EXCEPT !.pc = pc]]

\* the task enters videoDLWorker(ctx, out, v, format)
Call_videoDLWorker(t, s, role, out, format) ==
    Goto(t, [s EXCEPT !.w = NewWorker(role, out, format)], "w_GetStreamContext")

-----------------------------------------------------------------------------
(* getOutputFile, as the first or second step of each operation *)

Do_getOutputFile(t, s, format, pc) ==
    \/ /\ OutputDir # ""
       /\ Return(t, Step(s, "getOutputFile", ErrMkdirAll), ErrMkdirAll, fs)
       /\ UNCHANGED dirs
    \/ /\ dirs' = IF OutputDir # "" THEN dirs \cup {OutputDir} ELSE dirs
       /\ Goto(t, [Step(s, "getOutputFile", Nil) EXCEPT
                      !.destFile = getOutputFile(format, s.outputFile)], pc)
       /\ UNCHANGED fs

\* os.Create(destFile), "defer out.Close()" and the call of videoDLWorker
Do_Create(t, s, format) ==
    \/ /\ Return(t, Step(s, "Create", ErrCreate), ErrCreate, fs)
    \/ /\ fs' = CreateFile(fs, s.destFile)
       /\ Call_videoDLWorker(t, [Step(s, "Create", Nil) EXCEPT
                                    !.handles = @ \cup {"out"},
                                    !.truncated = s.destFile \in DOMAIN fs],
                             "direct", s.destFile, format)

-----------------------------------------------------------------------------
(* Download *)

Download_getOutputFile(t) ==
    LET s == task[t] IN
    /\ s.pc = "dl_getOutputFile"
    /\ Do_getOutputFile(t, s, s.format, "dl_Create")
    /\ UNCHANGED <<Formats, OutputDir, ffmpegInstalled, muxerCalls, sel>>

Download_Create(t) ==
    LET s == task[t] IN
    /\ s.pc = "dl_Create"
    /\ Do_Create(t, s, s.format)
    /\ UNCHANGED <<Formats, OutputDir, ffmpegInstalled, dirs, muxerCalls, sel>>

-----------------------------------------------------------------------------
(* DownloadByItag *)

DownloadByItag_getFormatByItag(t) ==
    LET s == task[t]
        r == getFormatByItag(Formats, s.itag)
        s1 == Step(s, "getFormatByItag", r.err)
    IN
    /\ s.pc = "it_getFormatByItag"
    /\ IF r.err # Nil
       THEN Return(t, s1, r.err, fs)
       ELSE Goto(t, [s1 EXCEPT !.format = r.format], "it_getOutputFile") /\ UNCHANGED fs
    /\ UNCHANGED <<Formats, OutputDir, ffmpegInstalled, dirs, muxerCalls, sel>>

DownloadByItag_getOutputFile(t) ==
    LET s == task[t] IN
    /\ s.pc = "it_getOutputFile"
    /\ Do_getOutputFile(t, s, s.format, "it_Create")
    /\ UNCHANGED <<Formats, OutputDir, ffmpegInstalled, muxerCalls, sel>>

DownloadByItag_Create(t) ==
    LET s == task[t] IN
    /\ s.pc = "it_Create"
    /\ Do_Create(t, s, s.format)
    /\ UNCHANGED <<Formats, OutputDir, ffmpegInstalled, dirs, muxerCalls, sel>>

-----------------------------------------------------------------------------
(* DownloadComposite, up to the first download *)

\* (a variant that resolves the output path before it looks at err1)
DownloadComposite_getVideoAudioFormats_Late(t) ==
    LET s == task[t]
        r == getVideoAudioFormats(Formats, s.quality, s.mimetype)
        s1 == Step(s, "getVideoAudioFormats", r.err)
    IN
    /\ s.pc = "dc_getVideoAudioFormats"
    /\ dirs' = IF OutputDir # "" THEN dirs \cup {OutputDir} ELSE dirs
    /\ IF r.err # Nil
       THEN Return(t, s1, r.err, fs)
       ELSE /\ Goto(t, [s1 EXCEPT !.videoFormat = r.video, !.audioFormat = r.audio],
                    "dc_getOutputFile")
            /\ UNCHANGED fs
    /\ UNCHANGED <<Formats, OutputDir, ffmpegInstalled, muxerCalls, sel>>

DownloadComposite_getVideoAudioFormats(t) ==
    LET s == task[t]
        r == getVideoAudioFormats(Formats, s.quality, s.mimetype)
        s1 == Step(s, "getVideoAudioFormats", r.err)
    IN
    /\ s.pc = "dc_getVideoAudioFormats"
    /\ IF r.err # Nil
       THEN Return(t, s1, r.err, fs)
       ELSE /\ Goto(t, [s1 EXCEPT !.videoFormat = r.video, !.audioFormat = r.audio],
                    "dc_getOutputFile")
            /\ UNCHANGED fs
    /\ UNCHANGED <<Formats, OutputDir, ffmpegInstalled, dirs, muxerCalls, sel>>

\* (a variant that creates the destination file as Download does)
DownloadComposite_getOutputFile_Create(t) ==
    LET s == task[t]
        destFile == getOutputFile(s.videoFormat, s.outputFile)
    IN
    /\ s.pc = "dc_getOutputFile"
    /\ dirs' = IF OutputDir # "" THEN dirs \cup {OutputDir} ELSE dirs
    /\ fs' = CreateFile(fs, destFile)
    /\ Goto(t, [Step(s, "getOutputFile", Nil) EXCEPT !.destFile = destFile],
            "dc_CreateTempVideo")
    /\ UNCHANGED <<Formats, OutputDir, ffmpegInstalled, muxerCalls, sel>>

DownloadComposite_getOutputFile(t) ==
    LET s == task[t] IN
    /\ s.pc = "dc_getOutputFile"
    /\ Do_getOutputFile(t, s, s.videoFormat, "dc_CreateTempVideo")
    /\ UNCHANGED <<Formats, OutputDir, ffmpegInstalled, muxerCalls, sel>>

\* os.CreateTemp(outputDir, "youtube_*.m4v") and "defer os.Remove(videoFile.Name())"
DownloadComposite_CreateTempVideo(t) ==
    LET s == task[t] IN
    /\ s.pc = "dc_CreateTempVideo"
    /\ \/ Return(t, Step(s, "CreateTemp:video", ErrCreateTemp), ErrCreateTemp, fs)
       \/ \E p \in TempCandidates(Dir(s.destFile), ".m4v") :
             /\ fs' = CreateFile(fs, p)
             /\ Goto(t, [Step(s, "CreateTemp:video", Nil) EXCEPT
                            !.videoFile = p, !.handles = @ \cup {"videoFile"}],
                     "dc_CreateTempAudio")
    /\ UNCHANGED <<Formats, OutputDir, ffmpegInstalled, dirs, muxerCalls, sel>>

\* os.CreateTemp(outputDir, "youtube_*.m4a"), "defer os.Remove(audioFile.Name())"
\* and the call of videoDLWorker for the video
DownloadComposite_CreateTempAudio(t) ==
    LET s == task[t] IN
    /\ s.pc = "dc_CreateTempAudio"
    /\ \/ Return(t, Step(s, "CreateTemp:audio", ErrCreateTemp), ErrCreateTemp, fs)
       \/ \E p \in TempCandidates(Dir(s.destFile), ".m4a") :
             /\ fs' = CreateFile(fs, p)
             /\ Call_videoDLWorker(t, [Step(s, "CreateTemp:audio", Nil) EXCEPT
                                          !.audioFile = p, !.handles = @ \cup {"audioFile"}],
                                   "video", s.videoFile, s.videoFormat)
    /\ UNCHANGED <<Formats, OutputDir, ffmpegInstalled, dirs, muxerCalls, sel>>

-----------------------------------------------------------------------------
(* videoDLWorker *)

\* the declared lengths GetStreamContext can report for a stream: unknown, or
\* a length the stream may fall short of, meet or exceed
DeclaredLengths == {0, 1, MaxStreamLen}

\* the k-th byte the source stream of a format delivers
SourceByte(format, k) == (format.itag + k) % 256

\* a format whose stream is served with any content
StreamBytes == {0, 7, 255}
fAny == Fmt(1, "video", "mp4", "medium", 2, 1)

\* two formats whose streams are served with one byte at most
fv1 == Fmt(401, "video", "mp4", "hd2160", 0, 5)
fa1 == Fmt(600, "audio", "mp4", "tiny", 2, 1)

\* the most bytes the stream of a format delivers
StreamLimit(format) == IF format \in {fv1, fa1} THEN 1 ELSE MaxStreamLen

\* the bytes reader.Read can deliver as the k-th byte of the stream of a format
SourceBytes(format, k) == IF format = fAny THEN StreamBytes ELSE {SourceByte(format, k)}

StreamHandle(role) ==
    IF role = "video" THEN "stream:video"
    ELSE IF role = "audio" THEN "stream:audio"
    ELSE "stream:direct"

\* (a variant that goes on to the audio whatever the video download returned)
AfterWorker_IgnoreVideoErr(op, role, e) ==
    IF op # "DownloadComposite" THEN "return"
    ELSE IF role = "video" THEN "audio"
    ELSE IF e # Nil THEN "return"
    ELSE "ffmpeg"

\* what the caller of videoDLWorker does with its result e
AfterWorker(op, role, e) ==
    IF op # "DownloadComposite" THEN "return"
    ELSE IF e # Nil THEN "return"
    ELSE IF role = "video" THEN "audio"
    ELSE "ffmpeg"

\* videoDLWorker returns e to its caller, which returns or goes on
WorkerReturn(t, s, e, files) ==
    LET next == AfterWorker(s.op, s.w.role, e) IN
    IF next = "return" THEN Return(t, s, e, files)
    ELSE IF next = "audio"
    THEN Call_videoDLWorker(t, s, "audio", s.audioFile, s.audioFormat) /\ fs' = files
    ELSE Goto(t, s, "dc_ffmpeg") /\ fs' = files

\* dl.GetStreamContext(ctx, video, format), then the progress bar is set up
videoDLWorker_GetStreamContext(t) ==
    LET s == task[t]
        s1 == [s EXCEPT !.netRequests = @ + 1]
        e == IF s.cancelled THEN ErrCanceled ELSE ErrGetStream
    IN
    /\ s.pc = "w_GetStreamContext"
    /\ \/ WorkerReturn(t, Step(s1, "GetStreamContext", e), e, fs)
       \/ /\ ~s.cancelled
          /\ \E size \in DeclaredLengths :
                Goto(t, [Step(s1, "GetStreamContext", Nil) EXCEPT
                            !.handles = @ \cup {StreamHandle(s.w.role)},
                            !.w.size = size, !.w.barTotal = size,
                            !.w.rendering = TRUE], "w_Copy")
          /\ UNCHANGED fs
    /\ UNCHANGED <<Formats, OutputDir, ffmpegInstalled, dirs, muxerCalls, sel>>

\* reader.Read delivered the bytes of chunk: the bar counts them
BarRead(w, chunk) ==
    LET current == w.barCurrent + Len(chunk)
        done == w.barTotal > 0 /\ current >= w.barTotal
    IN  [w EXCEPT !.read = @ \o chunk,
                  !.barCurrent = IF done THEN w.barTotal ELSE current,
                  !.barCompleted = @ \/ done]

\* prog.Write(chunk), the second writer of the io.MultiWriter: the byte counter
progress_Write(w, chunk) == [w EXCEPT !.prog = @ + Len(chunk)]

\* one round of io.Copy(io.MultiWriter(out, prog), reader)
videoDLWorker_Copy(t) ==
    LET s == task[t]
        w == s.w
        e == IF s.cancelled THEN ErrCanceled ELSE ErrRead
    IN
    /\ s.pc = "w_Copy"
    /\ \/ /\ ~s.cancelled /\ Len(w.read) < StreamLimit(w.format)
          /\ \E b \in SourceBytes(w.format, Len(w.read) + 1) :
                \/ /\ fs' = WriteFile(fs, w.out, <<b>>)
                   /\ Goto(t, [s EXCEPT !.w = progress_Write(BarRead(w, <<b>>), <<b>>)],
                           "w_Copy")
                \/ WorkerReturn(t, Step([s EXCEPT !.w = BarRead(w, <<b>>)], "Copy", ErrWrite),
                                ErrWrite, fs)
       \/ WorkerReturn(t, Step(s, "Copy", e), e, fs)
       \/ /\ ~s.cancelled
          /\ Goto(t, Step([s EXCEPT !.w.eof = TRUE], "Copy", Nil), "w_Wait")
          /\ UNCHANGED fs
    /\ UNCHANGED <<Formats, OutputDir, ffmpegInstalled, dirs, muxerCalls, sel>>

\* (a variant in which nothing but its count reaching its total completes the bar)
bar_SetTotal_CountOnly(t) ==
    LET s == task[t] IN
    /\ s.pc = "w_Wait" /\ s.w.eof /\ ~s.w.barCompleted
    /\ s.w.barTotal > 0 /\ s.w.barCurrent >= s.w.barTotal
    /\ Goto(t, [s EXCEPT !.w.barCompleted = TRUE], "w_Wait")
    /\ UNCHANGED <<Formats, OutputDir, ffmpegInstalled, fs, dirs, muxerCalls, sel>>

\* "go bar.SetTotal(0, true)", started by the proxy reader at io.EOF
bar_SetTotal(t) ==
    LET s == task[t] IN
    /\ s.pc = "w_Wait" /\ s.w.eof /\ ~s.w.barCompleted
    /\ Goto(t, [s EXCEPT !.w.barTotal = s.w.barCurrent, !.w.barCompleted = TRUE], "w_Wait")
    /\ UNCHANGED <<Formats, OutputDir, ffmpegInstalled, fs, dirs, muxerCalls, sel>>

\* (a variant that returns nil without progress.Wait())
videoDLWorker_Wait_NoWait(t) ==
    LET s == task[t] IN
    /\ s.pc = "w_Wait"
    /\ WorkerReturn(t, Step(s, "Wait", Nil), Nil, fs)
    /\ UNCHANGED <<Formats, OutputDir, ffmpegInstalled, dirs, muxerCalls, sel>>

\* progress.Wait() returns once the bar is complete and the renderer has
\* stopped; videoDLWorker returns nil
videoDLWorker_Wait(t) ==
    LET s == task[t] IN
    /\ s.pc = "w_Wait" /\ s.w.barCompleted
    /\ WorkerReturn(t, Step([s EXCEPT !.w.rendering = FALSE], "Wait", Nil), Nil, fs)
    /\ UNCHANGED <<Formats, OutputDir, ffmpegInstalled, dirs, muxerCalls, sel>>

-----------------------------------------------------------------------------
(* DownloadComposite: the merge *)

\* (a variant with the two inputs in the other order)
ffmpegCommand_Swapped(t, s) ==
    [task |-> t, video |-> s.audioFile, audio |-> s.videoFile, output |-> s.destFile]

\* exec.Command("ffmpeg", "-y", "-i", video, "-i", audio, ..., destFile, ...)
ffmpegCommand(t, s) ==
    [task |-> t, video |-> s.videoFile, audio |-> s.audioFile, output |-> s.destFile]

\* what ffmpeg writes to its output from the two inputs
Muxed(files, cmd) == files[cmd.video] \o files[cmd.audio]

\* ffmpegVersionCmd.Run(), first half: the command is started
DownloadComposite_ffmpeg(t) ==
    LET s == task[t]
        cmd == ffmpegCommand(t, s)
    IN
    /\ s.pc = "dc_ffmpeg"
    /\ muxerCalls' = Append(muxerCalls, cmd)
    /\ \/ /\ ~ffmpegInstalled
          /\ Return(t, Step(s, "ffmpeg", ErrNotFound), ErrNotFound, fs)
       \/ /\ ffmpegInstalled
          /\ Goto(t, s, "dc_ffmpegWait")
          /\ UNCHANGED fs
    /\ UNCHANGED <<Formats, OutputDir, ffmpegInstalled, dirs, sel>>

\* (a variant that drops the error of ffmpegVersionCmd.Run())
DownloadComposite_ffmpegWait_IgnoreExit(t) ==
    LET s == task[t] IN
    /\ s.pc = "dc_ffmpegWait"
    /\ Return(t, Step(s, "ffmpeg", ErrExit), Nil, fs)
    /\ UNCHANGED <<Formats, OutputDir, ffmpegInstalled, dirs, muxerCalls, sel>>

\* (a variant started with exec.CommandContext(ctx, ...): cancelling kills ffmpeg)
DownloadComposite_ffmpegWait_Ctx(t) ==
    LET s == task[t]
        cmd == ffmpegCommand(t, s)
    IN
    /\ s.pc = "dc_ffmpegWait"
    /\ \/ /\ s.cancelled
          /\ Return(t, Step(s, "ffmpeg", ErrCanceled), ErrCanceled, fs)
       \/ /\ ~s.cancelled
          /\ Return(t, Step(s, "ffmpeg", ErrExit), ErrExit, fs)
       \/ /\ ~s.cancelled
          /\ {cmd.video, cmd.audio} \subseteq DOMAIN fs
          /\ Return(t, Step(s, "ffmpeg", Nil), Nil,
                    [q \in DOMAIN fs \cup {cmd.output} |->
                        IF q = cmd.output THEN Muxed(fs, cmd) ELSE fs[q]])
    /\ UNCHANGED <<Formats, OutputDir, ffmpegInstalled, dirs, muxerCalls, sel>>

\* ffmpegVersionCmd.Run(), second half: ffmpeg exits, whatever became of ctx
DownloadComposite_ffmpegWait(t) ==
    LET s == task[t]
        cmd == ffmpegCommand(t, s)
    IN
    /\ s.pc = "dc_ffmpegWait"
    /\ \/ Return(t, Step(s, "ffmpeg", ErrExit), ErrExit, fs)
       \/ /\ {cmd.video, cmd.audio} \subseteq DOMAIN fs
          /\ Return(t, Step(s, "ffmpeg", Nil), Nil,
                    [q \in DOMAIN fs \cup {cmd.output} |->
                        IF q = cmd.output THEN Muxed(fs, cmd) ELSE fs[q]])
    /\ UNCHANGED <<Formats, OutputDir, ffmpegInstalled, dirs, muxerCalls, sel>>

-----------------------------------------------------------------------------
(* The download command *)

\* strconv.Atoi on the itag strings of the model; -1 stands for its error
Atoi(str) ==
    IF str = "18" THEN 18
    ELSE IF str = "140" THEN 140
    ELSE IF str = "99" THEN 99
    ELSE -1

\* strings.HasPrefix(outputQuality, "hd")
HasPrefixHd(quality) == quality \in {"hd720", "hd1080"}

RangeOf(list) == {list[i] : i \in 1..Len(list)}

\* getVideoWithFormat(id): fetches the video's metadata and picks a format
download_getVideoWithFormat(t) ==
    LET s == task[t]
        s1 == [s EXCEPT !.netRequests = @ + 1]
    IN
    /\ s.pc = "cli_getVideoWithFormat"
    /\ \/ Return(t, Step(s1, "getVideoWithFormat", ErrGetVideo), ErrGetVideo, fs)
       \/ /\ \E f \in RangeOf(Formats) :
                Goto(t, [Step(s1, "getVideoWithFormat", Nil) EXCEPT !.format = f],
                     "cli_dispatch")
          /\ UNCHANGED fs
    /\ UNCHANGED <<Formats, OutputDir, ffmpegInstalled, dirs, muxerCalls, sel>>

\* (a variant that calls DownloadComposite without checkFFMPEG)
download_dispatch_NoProbe(t) ==
    LET s == task[t] IN
    /\ s.pc = "cli_dispatch"
    /\ IF s.itagString # ""
       THEN IF Atoi(s.itagString) = -1
            THEN Return(t, Step(s, "Atoi", ErrAtoi), ErrAtoi, fs)
            ELSE /\ Goto(t, [s EXCEPT !.op = "DownloadByItag", !.itag = Atoi(s.itagString)],
                         "it_getFormatByItag")
                 /\ UNCHANGED fs
       ELSE IF HasPrefixHd(s.quality)
            THEN Goto(t, [s EXCEPT !.op = "DownloadComposite"], "dc_getVideoAudioFormats")
                 /\ UNCHANGED fs
            ELSE Goto(t, [s EXCEPT !.op = "Download"], "dl_getOutputFile") /\ UNCHANGED fs
    /\ UNCHANGED <<Formats, OutputDir, ffmpegInstalled, dirs, muxerCalls, sel>>

\* download(id) after getVideoWithFormat: which operation the flags ask for
download_dispatch(t) ==
    LET s == task[t] IN
    /\ s.pc = "cli_dispatch"
    /\ IF s.itagString # ""
       THEN IF Atoi(s.itagString) = -1
            THEN Return(t, Step(s, "Atoi", ErrAtoi), ErrAtoi, fs)
            ELSE /\ Goto(t, [s EXCEPT !.op = "DownloadByItag", !.itag = Atoi(s.itagString)],
                         "it_getFormatByItag")
                 /\ UNCHANGED fs
       ELSE IF HasPrefixHd(s.quality)
            THEN Goto(t, s, "cli_checkFFMPEG") /\ UNCHANGED fs
            ELSE Goto(t, [s EXCEPT !.op = "Download"], "dl_getOutputFile") /\ UNCHANGED fs
    /\ UNCHANGED <<Formats, OutputDir, ffmpegInstalled, dirs, muxerCalls, sel>>

\* checkFFMPEG(): runs "ffmpeg -version"; then download calls DownloadComposite
checkFFMPEG(t) ==
    LET s == task[t]
        ffmpegCheck == IF ~ffmpegInstalled THEN ErrFFMPEG ELSE s.ffmpegCheck
        s1 == Step([s EXCEPT !.ffmpegCheck = ffmpegCheck], "checkFFMPEG", ffmpegCheck)
    IN
    /\ s.pc = "cli_checkFFMPEG"
    /\ IF ffmpegCheck # Nil
       THEN Return(t, s1, ffmpegCheck, fs)
       ELSE Goto(t, [s1 EXCEPT !.op = "DownloadComposite"], "dc_getVideoAudioFormats")
            /\ UNCHANGED fs
    /\ UNCHANGED <<Formats, OutputDir, ffmpegInstalled, dirs, muxerCalls, sel>>

\* the caller cancels the context it passed to the operation
Cancel(t) ==
    LET s == task[t] IN
    /\ s.entry = "api" /\ s.pc \notin {"idle", "done"} /\ ~s.cancelled
    /\ task' = [task EXCEPT ![t].cancelled = TRUE, ![t].cancelledAt = s.pc]
    /\ UNCHANGED <<Formats, OutputDir, ffmpegInstalled, fs, dirs, muxerCalls, sel>>

-----------------------------------------------------------------------------
(* The specification of one task at a time *)

CatFull        == <<f18, f136, f137, f140>>
CatNoAudio     == <<f18, f137>>
CatNoVideoOnly == <<f18, f140>>
Catalogs == {CatFull, CatNoAudio, CatNoVideoOnly}

OutputFiles == {"", "out.mp4"}

\* a file that may be there before the task starts
OldFile == Path(OutputDir, "out.mp4", 0, "")
NoFiles == [p \in {} |-> <<>>]

NoSel == [fn |-> "", formats |-> <<>>, quality |-> "", mimetype |-> "", itag |-> 0,
          video |-> NoFormat, audio |-> NoFormat, err |-> Pending]

TaskConfigs(formats) ==
    {NewTask("api", "Download", "dl_getOutputFile", o, "", "", "", 0, f) :
        o \in OutputFiles, f \in RangeOf(formats)}
    \cup {NewTask("api", "DownloadByItag", "it_getFormatByItag", o, "", "", "", i, NoFormat) :
        o \in OutputFiles, i \in {140, 99}}
    \cup {NewTask("api", "DownloadComposite", "dc_getVideoAudioFormats", o, q, m, "", 0, NoFormat) :
        o \in OutputFiles, q \in {"", "hd720"}, m \in {"", "webm"}}
    \cup {NewTask("cli", "download", "cli_getVideoWithFormat", o, q, "", i, 0, NoFormat) :
        o \in OutputFiles, q \in {"", "hd720"}, i \in {"", "140", "x"}}

Init ==
    /\ Formats \in Catalogs
    /\ OutputDir \in {"", "dl"}
    /\ ffmpegInstalled \in BOOLEAN
    /\ fs \in {NoFiles, [p \in {OldFile} |-> <<9>>]}
    /\ dirs = {}
    /\ muxerCalls = <<>>
    /\ sel = NoSel
    /\ \E c \in TaskConfigs(Formats) : task = [t \in Tasks |-> IF t = "t1" THEN c ELSE IdleTask]

\* a step of the task itself, of the fetcher or of ffmpeg
RunStep(t) ==
    \/ Download_getOutputFile(t)
    \/ Download_Create(t)
    \/ DownloadByItag_getFormatByItag(t)
    \/ DownloadByItag_getOutputFile(t)
    \/ DownloadByItag_Create(t)
    \/ DownloadComposite_getVideoAudioFormats(t)
    \/ DownloadComposite_getOutputFile(t)
    \/ DownloadComposite_CreateTempVideo(t)
    \/ DownloadComposite_CreateTempAudio(t)
    \/ videoDLWorker_GetStreamContext(t)
    \/ videoDLWorker_Copy(t)
    \/ bar_SetTotal(t)
    \/ videoDLWorker_Wait(t)
    \/ DownloadComposite_ffmpeg(t)
    \/ DownloadComposite_ffmpegWait(t)
    \/ download_getVideoWithFormat(t)
    \/ download_dispatch(t)
    \/ checkFFMPEG(t)

TaskStep(t) == RunStep(t) \/ Cancel(t)

Next == \E t \in Tasks : TaskStep(t)

Spec == Init /\ [][Next]_vars

\* one task on the full catalog, with an output directory to make, no file at
\* its destination
FairInit ==
    /\ Formats = CatFull
    /\ OutputDir = "dl"
    /\ ffmpegInstalled \in BOOLEAN
    /\ fs = NoFiles
    /\ dirs = {}
    /\ muxerCalls = <<>>
    /\ sel = NoSel
    /\ \E c \in TaskConfigs(Formats) : task = [t \in Tasks |-> IF t = "t1" THEN c ELSE IdleTask]

\* a task that can take a step takes one: its goroutine is scheduled, the
\* reads of the fetcher return and ffmpeg exits. The caller need not cancel.
FairSpec == FairInit /\ [][Next]_vars /\ \A t \in Tasks : WF_vars(RunStep(t))

-----------------------------------------------------------------------------
(* The specification of the selection functions on their own: any catalog  *)
(* of up to MaxCatalog formats, any quality, MIME type and itag             *)

RECURSIVE CatalogsUpTo(_)
CatalogsUpTo(n) ==
    IF n = 0 THEN {<<>>}
    ELSE LET shorter == CatalogsUpTo(n - 1)
         IN  shorter \cup {Append(c, f) : c \in {d \in shorter : Len(d) = n - 1},
                                          f \in FormatUniverse}

SelInit ==
    /\ Formats \in CatalogsUpTo(MaxCatalog)
    /\ OutputDir = ""
    /\ ffmpegInstalled = TRUE
    /\ fs = NoFiles
    /\ dirs = {}
    /\ muxerCalls = <<>>
    /\ sel = NoSel
    /\ task = [t \in Tasks |-> IdleTask]

Sel_getVideoAudioFormats ==
    /\ \E quality \in Qualities, mimetype \in MimeTypes :
          LET r == getVideoAudioFormats(Formats, quality, mimetype) IN
          /\ sel' = [fn |-> "getVideoAudioFormats", formats |-> Formats,
                  quality |-> quality, mimetype |-> mimetype, itag |-> 0,
                  video |-> r.video, audio |-> r.audio, err |-> r.err]
             /\ Formats' = Catalog_getVideoAudioFormats(Formats, quality, mimetype)
    /\ UNCHANGED <<OutputDir, ffmpegInstalled, fs, dirs, muxerCalls, task>>

Sel_getFormatByItag ==
    /\ \E itag \in Itags :
          LET r == getFormatByItag(Formats, itag) IN
          /\ sel' = [fn |-> "getFormatByItag", formats |-> Formats,
                  quality |-> "", mimetype |-> "", itag |-> itag,
                  video |-> r.format, audio |-> NoFormat, err |-> r.err]
             /\ Formats' = Catalog_getFormatByItag(Formats, itag)
    /\ UNCHANGED <<OutputDir, ffmpegInstalled, fs, dirs, muxerCalls, task>>

SelNext == Sel_getVideoAudioFormats \/ Sel_getFormatByItag

SelSpec == SelInit /\ [][SelNext]_vars

-----------------------------------------------------------------------------
(* The specification of one Download of a stream of any content: up to      *)
(* MaxStreamLen bytes of StreamBytes, whatever length was declared          *)

CopyInit ==
    /\ Formats = <<fAny>>
    /\ OutputDir \in {"", "dl"}
    /\ ffmpegInstalled = TRUE
    /\ fs \in {NoFiles, [p \in {OldFile} |-> <<9>>]}
    /\ dirs = {}
    /\ muxerCalls = <<>>
    /\ sel = NoSel
    /\ \E o \in OutputFiles :
          task = [t \in Tasks |->
                    IF t = "t1"
                    THEN NewTask("api", "Download", "dl_getOutputFile", o, "", "", "", 0, fAny)
                    ELSE IdleTask]

CopyStep(t) ==
    \/ Download_getOutputFile(t)
    \/ Download_Create(t)
    \/ videoDLWorker_GetStreamContext(t)
    \/ videoDLWorker_Copy(t)
    \/ bar_SetTotal(t)
    \/ videoDLWorker_Wait(t)
    \/ Cancel(t)

CopyNext == \E t \in Tasks : CopyStep(t)

CopySpec == CopyInit /\ [][CopyNext]_vars

-----------------------------------------------------------------------------
(* The specification of two DownloadComposite calls that run at the same   *)
(* time, with the same destination directory, their steps interleaved      *)

ConcInit ==
    /\ Formats = <<fv1, fa1>>
    /\ OutputDir = ""
    /\ ffmpegInstalled = TRUE
    /\ fs = NoFiles
    /\ dirs = {}
    /\ muxerCalls = <<>>
    /\ sel = NoSel
    /\ task = [t \in Tasks |->
                 NewTask("api", "DownloadComposite", "dc_getVideoAudioFormats",
                         IF t = "t1" THEN "out.mp4" ELSE "", "", "", "", 0, NoFormat)]

ConcStep(t) ==
    \/ DownloadComposite_getVideoAudioFormats(t)
    \/ DownloadComposite_getOutputFile(t)
    \/ DownloadComposite_CreateTempVideo(t)
    \/ DownloadComposite_CreateTempAudio(t)
    \/ videoDLWorker_GetStreamContext(t)
    \/ videoDLWorker_Copy(t)
    \/ bar_SetTotal(t)
    \/ videoDLWorker_Wait(t)
    \/ DownloadComposite_ffmpeg(t)
    \/ DownloadComposite_ffmpegWait(t)

ConcNext == \E t \in Tasks : ConcStep(t)

ConcSpec == ConcInit /\ [][ConcNext]_vars

-----------------------------------------------------------------------------
(* What the properties below speak of *)

\* the ffmpeg merge commands task t has run
MuxerCallsOf(t) == SelectSeq(muxerCalls, LAMBDA c : c.task = t)

\* the videoDLWorker call of that role has returned nil
DownloadOk(s, role) ==
    \E i \in 1..Len(s.steps) : s.steps[i] = [step |-> "Wait", role |-> role, err |-> Nil]

\* a step of the videoDLWorker call of that role has failed
DownloadFailed(s, role) ==
    \E i \in 1..Len(s.steps) : s.steps[i].role = role /\ s.steps[i].err # Nil

\* the temporary files in the file system
TempFiles == {p \in DOMAIN fs : p.stem = "youtube_"}

\* the place of a step in DownloadComposite; 0 for a step of the download command
CompositeRank(st) ==
    IF st.step = "getVideoAudioFormats" THEN 1
    ELSE IF st.step = "getOutputFile" THEN 2
    ELSE IF st.step = "CreateTemp:video" THEN 3
    ELSE IF st.step = "CreateTemp:audio" THEN 4
    ELSE IF st.step = "GetStreamContext" /\ st.role = "video" THEN 5
    ELSE IF st.step = "Copy" /\ st.role = "video" THEN 6
    ELSE IF st.step = "Wait" /\ st.role = "video" THEN 7
    ELSE IF st.step = "GetStreamContext" /\ st.role = "audio" THEN 8
    ELSE IF st.step = "Copy" /\ st.role = "audio" THEN 9
    ELSE IF st.step = "Wait" /\ st.role = "audio" THEN 10
    ELSE IF st.step = "ffmpeg" THEN 11
    ELSE 0

StepNames(s) == [i \in 1..Len(s.steps) |-> s.steps[i].step]

workerSteps == <<"GetStreamContext", "Copy", "Wait">>

\* the steps of a run in which every step succeeds
AllSteps(s) ==
    (IF s.entry = "cli" THEN <<"getVideoWithFormat">> ELSE <<>>)
    \o (IF s.op = "Download" THEN <<"getOutputFile", "Create">> \o workerSteps
        ELSE IF s.op = "DownloadByItag"
        THEN <<"getFormatByItag", "getOutputFile", "Create">> \o workerSteps
        ELSE (IF s.entry = "cli" THEN <<"checkFFMPEG">> ELSE <<>>)
             \o <<"getVideoAudioFormats", "getOutputFile", "CreateTemp:video",
                  "CreateTemp:audio">> \o workerSteps \o workerSteps \o <<"ffmpeg">>)

-----------------------------------------------------------------------------
(* Properties of one task (Spec) *)

\* C1: when DownloadComposite has returned, in whatever stage it ended, neither
\* of the temporary files it created exists any more.
C1_NoTempFileLeft ==
    \A t \in Tasks :
        task[t].pc = "done" =>
            /\ {task[t].videoFile, task[t].audioFile} \cap DOMAIN fs = {}
            /\ (\A u \in Tasks : task[u].pc \in {"idle", "done"}) => TempFiles = {}

\* a run that ended at the failure of the second os.CreateTemp
C1_Witness ==
    \E t \in Tasks :
        /\ task[t].pc = "done" /\ task[t].op = "DownloadComposite"
        /\ task[t].videoFile # NoPath /\ task[t].audioFile = NoPath
        /\ task[t].result = ErrCreateTemp

\* C2: when both downloads succeed ffmpeg is run exactly once, with the temporary
\* video file and the temporary audio file as inputs and the resolved destination
\* as output, and both temporary files are gone once DownloadComposite returns,
\* whatever ffmpeg returned; ffmpeg is never run twice by one task.
C2_MuxerOnce ==
    \A t \in Tasks :
        LET s == task[t]
            calls == MuxerCallsOf(t)
        IN  /\ Len(calls) <= 1
            /\ (s.pc = "done" /\ DownloadOk(s, "video") /\ DownloadOk(s, "audio")) =>
                  /\ Len(calls) = 1
                  /\ calls[1].video = s.videoFile /\ calls[1].video.ext = ".m4v"
                  /\ calls[1].audio = s.audioFile /\ calls[1].audio.ext = ".m4a"
                  /\ calls[1].output = s.destFile
                  /\ s.destFile = getOutputFile(s.videoFormat, s.outputFile)
                  /\ {s.videoFile, s.audioFile} \cap DOMAIN fs = {}

\* both downloads succeeded and ffmpeg exited with a nonzero code
C2_Witness ==
    \E t \in Tasks :
        /\ task[t].pc = "done" /\ task[t].result = ErrExit
        /\ DownloadOk(task[t], "video") /\ DownloadOk(task[t], "audio")
        /\ Len(MuxerCallsOf(t)) = 1

\* C3: when getVideoAudioFormats fails, DownloadComposite returns that error at
\* once: no directory and no file has been created, no stream opened, ffmpeg not run.
C3_SelectionFailsFirst ==
    \A t \in Tasks :
        LET s == task[t] IN
        \A i \in 1..Len(s.steps) :
            (s.steps[i].step = "getVideoAudioFormats" /\ s.steps[i].err # Nil) =>
                /\ i = Len(s.steps) /\ s.pc = "done" /\ s.result = s.steps[i].err
                /\ dirs = {} /\ TempFiles = {} /\ s.destFile = NoPath
                /\ (\A p \in DOMAIN fs : p = OldFile /\ fs[p] = <<9>>)
                /\ s.handles = {} /\ s.w = NoWorker
                /\ MuxerCallsOf(t) = <<>>

\* a composite download that ended at the selection, for want of an audio format
C3_Witness ==
    \E t \in Tasks :
        /\ task[t].pc = "done" /\ task[t].op = "DownloadComposite"
        /\ task[t].result = ErrNoAudioFormat /\ OutputDir # ""
        /\ task[t].steps[Len(task[t].steps)].step = "getVideoAudioFormats"

\* C4: DownloadComposite takes its steps in the order selection, output path,
\* temporary files, video download, audio download, merge: the audio download
\* starts only after the video download has returned nil, ffmpeg runs only after
\* both have, and after a failed video download no audio stream is opened and
\* ffmpeg is not run.
C4_CompositeOrder ==
    \A t \in Tasks :
        LET s == task[t]
            rank(i) == CompositeRank(s.steps[i])
        IN  s.op = "DownloadComposite" =>
            /\ \A i \in 1..Len(s.steps) :
                  /\ rank(i) = (IF s.steps[i].step \in {"getVideoWithFormat", "checkFFMPEG"}
                                THEN 0
                                ELSE IF i = 1 THEN 1
                                ELSE rank(i - 1) + 1)
                  /\ rank(i) >= 8 => DownloadOk(s, "video")
                  /\ rank(i) = 11 => DownloadOk(s, "audio")
            /\ (s.pc \in {"w_GetStreamContext", "w_Copy", "w_Wait"} /\ s.w.role = "audio")
                  => DownloadOk(s, "video")
            /\ ("stream:audio" \in s.handles) => DownloadOk(s, "video")
            /\ (s.pc \in {"dc_ffmpeg", "dc_ffmpegWait"} \/ MuxerCallsOf(t) # <<>>)
                  => (DownloadOk(s, "video") /\ DownloadOk(s, "audio"))
            /\ DownloadFailed(s, "video") =>
                  /\ s.pc = "done" /\ "stream:audio" \notin s.handles
                  /\ s.w.role = "video" /\ MuxerCallsOf(t) = <<>>

\* a composite download that went through every step and returned nil
C4_Witness ==
    \E t \in Tasks :
        /\ task[t].pc = "done" /\ task[t].op = "DownloadComposite"
        /\ task[t].result = Nil /\ Len(MuxerCallsOf(t)) = 1
        /\ task[t].destFile \in DOMAIN fs

\* C5: in Download, DownloadByItag and DownloadComposite the first step that
\* fails is the last step of the run and its error is what the run returns; no
\* stream is opened twice; the run returns nil exactly when every step of the
\* operation was taken and succeeded (for DownloadComposite up to ffmpeg exiting 0).
C5_FirstErrorEndsRun ==
    \A t \in Tasks :
        LET s == task[t] IN
        /\ \A i \in 1..Len(s.steps) :
              s.steps[i].err # Nil =>
                  i = Len(s.steps) /\ s.pc = "done" /\ s.result = s.steps[i].err
        /\ \A role \in {"direct", "video", "audio"} :
              Cardinality({i \in 1..Len(s.steps) :
                  s.steps[i].step = "GetStreamContext" /\ s.steps[i].role = role}) <= 1
        /\ (s.result = Pending) = (s.pc # "done")
        /\ s.pc = "done" =>
              /\ (s.result = Nil) = (\A i \in 1..Len(s.steps) : s.steps[i].err = Nil)
              /\ (s.result = Nil) => StepNames(s) = AllSteps(s)

\* a composite download that ended at a read error of the audio stream
C5_Witness ==
    \E t \in Tasks :
        /\ task[t].pc = "done" /\ task[t].op = "DownloadComposite"
        /\ task[t].result = ErrRead
        /\ task[t].steps[Len(task[t].steps)] = [step |-> "Copy", role |-> "audio", err |-> ErrRead]

\* C6 (as claimed): every file handle and stream a task opened is closed when
\* the task returns.
C6_AllHandlesClosed ==
    \A t \in Tasks : task[t].pc = "done" => task[t].handles = {}

\* the task is a composite download: DownloadComposite called directly, or the
\* download command with an "hd" quality and no itag
IsComposite(s) ==
    \/ s.op = "DownloadComposite"
    \/ s.entry = "cli" /\ s.itagString = "" /\ HasPrefixHd(s.quality)

\* the errors that say ffmpeg is missing
ToolMissing == {ErrFFMPEG, ErrNotFound}

\* a step of a videoDLWorker call was taken
StreamRequested(s) == \E i \in 1..Len(s.steps) : s.steps[i].step = "GetStreamContext"

\* C7 (as claimed): a composite download that fails because ffmpeg is missing has
\* made no network request, opened no stream and created no temporary file.
C7_ProbeBeforeNetwork ==
    \A t \in Tasks :
        LET s == task[t] IN
        (s.pc = "done" /\ IsComposite(s) /\ s.result \in ToolMissing) =>
            /\ s.netRequests = 0
            /\ ~StreamRequested(s)
            /\ s.videoFile = NoPath /\ s.audioFile = NoPath

\* C7 (amended): in the download command checkFFMPEG runs after the metadata of
\* the video has been fetched and before DownloadComposite is called: with ffmpeg
\* missing the command ends there with the tool-missing error, its one network
\* request being the metadata fetch, no stream opened, no file or directory
\* created, DownloadComposite never entered. DownloadComposite itself does not
\* probe: called directly with ffmpeg missing it fails at the merge, after both
\* downloads.
C7_ProbeBeforeStreams ==
    \A t \in Tasks :
        LET s == task[t] IN
        /\ (s.entry = "cli" /\ ~ffmpegInstalled) =>
              /\ s.op # "DownloadComposite"
              /\ s.pc \notin {"dc_getVideoAudioFormats", "dc_getOutputFile", "dc_CreateTempVideo",
                              "dc_CreateTempAudio", "dc_ffmpeg", "dc_ffmpegWait"}
              /\ (s.pc = "done" /\ IsComposite(s) /\ s.steps[1].err = Nil) =>
                    /\ s.result = ErrFFMPEG
                    /\ StepNames(s) = <<"getVideoWithFormat", "checkFFMPEG">>
                    /\ s.netRequests = 1 /\ ~StreamRequested(s)
                    /\ s.handles = {} /\ s.videoFile = NoPath /\ s.audioFile = NoPath
                    /\ TempFiles = {} /\ dirs = {} /\ MuxerCallsOf(t) = <<>>
        /\ (s.entry = "cli" /\ s.op = "DownloadComposite") =>
              s.steps[2] = [step |-> "checkFFMPEG", role |-> "", err |-> Nil]
        /\ s.result = ErrFFMPEG => s.entry = "cli"
        /\ s.result = ErrNotFound =>
              /\ s.entry = "api" /\ ~ffmpegInstalled
              /\ DownloadOk(s, "video") /\ DownloadOk(s, "audio") /\ s.netRequests = 2

\* the download command, asked for an "hd" quality with ffmpeg missing, has returned
C7_Witness ==
    \E t \in Tasks :
        /\ task[t].entry = "cli" /\ task[t].pc = "done" /\ ~ffmpegInstalled
        /\ task[t].result = ErrFFMPEG /\ task[t].netRequests = 1

\* what a not-found error says was not found
ErrorSubject(e) ==
    IF e.msg = "no video format found after filtering" THEN "video"
    ELSE IF e.msg = "no audio format found after filtering" THEN "audio"
    ELSE IF e.msg = "no audio format found" THEN "audio"
    ELSE ""

\* C10 (as claimed): DownloadByItag continues with a format of the catalog that
\* has the itag asked for when there is one; when there is none it returns a
\* not-found error about the itag, which is neither the video nor the audio
\* not-found error, and has created no file and opened no stream.
C10_ItagNotFound ==
    \A t \in Tasks :
        LET s == task[t] IN
        (s.op = "DownloadByItag" /\ s.steps # <<>> /\ s.steps[Len(s.steps)].step # "getVideoWithFormat") =>
            IF \E f \in RangeOf(Formats) : f.itag = s.itag
            THEN s.format \in RangeOf(Formats) /\ s.format.itag = s.itag
            ELSE /\ s.pc = "done" /\ s.result.kind = "error"
                 /\ s.result \notin {ErrNoVideoFormat, ErrNoAudioFormat}
                 /\ ErrorSubject(s.result) = "itag"
                 /\ s.handles = {} /\ s.destFile = NoPath /\ ~StreamRequested(s)

-----------------------------------------------------------------------------
(* Properties of the selection functions (SelSpec) *)

\* the formats of the catalog that getVideoAudioFormats may return as the video
VideoMatches(quality, mimetype) ==
    {f \in RangeOf(Formats) :
        /\ f.mime.class = "video" /\ f.audioChannels = 0
        /\ quality # "" => f.quality = quality
        /\ mimetype # "" => mimetype \in {f.mime.class, f.mime.subtype}}

\* the formats of the catalog that getVideoAudioFormats may return as the audio
AudioMatches(mimetype) ==
    {f \in RangeOf(Formats) :
        /\ f.mime.class = "audio"
        /\ mimetype # "" => mimetype \in {f.mime.class, f.mime.subtype}}

\* C8: when getVideoAudioFormats succeeds, the video it returns is a format of the
\* catalog of the video class with no audio channel (and of the quality asked
\* for), and the audio is a format of the catalog of the audio class; with no
\* quality and no MIME type it succeeds on every catalog that has a video format
\* without audio channels and an audio format.
C8_SelectionSound ==
    sel.fn = "getVideoAudioFormats" =>
        /\ sel.err = Nil =>
              /\ sel.video \in RangeOf(Formats)
              /\ sel.video.mime.class = "video" /\ sel.video.audioChannels = 0
              /\ sel.quality # "" => sel.video.quality = sel.quality
              /\ sel.audio \in RangeOf(Formats)
              /\ sel.audio.mime.class = "audio"
        /\ (sel.quality = "" /\ sel.mimetype = ""
              /\ VideoMatches("", "") # {} /\ AudioMatches("") # {}) => sel.err = Nil

\* a successful selection with a quality, from a catalog that also has a video
\* format with audio channels
C8_Witness ==
    /\ sel.fn = "getVideoAudioFormats" /\ sel.err = Nil /\ sel.quality # ""
    /\ \E f \in RangeOf(Formats) : f.mime.class = "video" /\ f.audioChannels > 0

\* C9: getVideoAudioFormats returns the video not-found error whenever no video
\* candidate is left, whether or not an audio candidate is; it returns the audio
\* not-found error only when a video candidate is left and no audio candidate is.
C9_VideoErrorFirst ==
    sel.fn = "getVideoAudioFormats" =>
        /\ VideoMatches(sel.quality, sel.mimetype) = {} => sel.err = ErrNoVideoFormat
        /\ sel.err = ErrNoAudioFormat =>
              /\ VideoMatches(sel.quality, sel.mimetype) # {}
              /\ AudioMatches(sel.mimetype) = {}
        /\ sel.err \in {Nil, ErrNoVideoFormat, ErrNoAudioFormat}

\* neither a video nor an audio candidate is left, and the error is the video one
C9_Witness ==
    /\ sel.fn = "getVideoAudioFormats" /\ sel.err = ErrNoVideoFormat
    /\ VideoMatches(sel.quality, sel.mimetype) = {} /\ AudioMatches(sel.mimetype) = {}
    /\ VideoMatches("", "") # {} /\ sel.quality # ""

-----------------------------------------------------------------------------
(* Properties of the copy (CopySpec) *)

\* what the worker of s has written to its destination
Written(s) == IF s.w.out \in DOMAIN fs THEN fs[s.w.out] ELSE <<>>

\* the byte counter of a videoDLWorker call never decreases
ProgMonotonic ==
    \A t \in Tasks :
        (task[t].w.role # "" /\ task'[t].w.role = task[t].w.role) =>
            task'[t].w.prog >= task[t].w.prog

\* C11: whatever the stream delivers and whatever length was declared, the
\* destination holds the bytes read so far in their order, the byte counter is
\* the number of bytes written and never more than the number read, it never
\* decreases, and once the copy has ended without error the destination is
\* exactly what was read and the counter is its length.
C11_TeeCorrect ==
    /\ [](\A t \in Tasks :
            LET s == task[t] IN
            (s.w.role # "" /\ s.w.out \in DOMAIN fs) =>
                /\ s.w.prog <= Len(s.w.read)
                /\ Written(s) = SubSeq(s.w.read, 1, s.w.prog)
                /\ (s.w.eof => Written(s) = s.w.read /\ s.w.prog = Len(s.w.read)))
    /\ [][ProgMonotonic]_vars

\* a Download that returned nil after copying two different bytes of a stream
\* declared one byte long
C11_Witness ==
    \E t \in Tasks :
        LET s == task[t] IN
        /\ s.pc = "done" /\ s.result = Nil /\ s.w.eof
        /\ s.w.size = 1 /\ Len(s.w.read) = 2 /\ s.w.read[1] # s.w.read[2]
        /\ Written(s) = s.w.read

-----------------------------------------------------------------------------
(* Properties of the selection functions as calls on v.Formats (SelSpec) *)

\* C12: a call of getVideoAudioFormats or of getFormatByItag, whether it returns
\* formats or an error, leaves v.Formats as it was: the same formats in the same
\* order.
C12_CatalogUnchanged == [][Formats' = Formats]_vars

\* getVideoAudioFormats has returned formats, with no MIME type given, from a
\* catalog that is not in sorted order
C12_Witness ==
    /\ sel.fn = "getVideoAudioFormats" /\ sel.err = Nil /\ sel.mimetype = ""
    /\ sel.formats = Formats /\ Sort(Formats) # Formats
    /\ sel.video # Formats[1]

-----------------------------------------------------------------------------
(* Properties of two DownloadComposite calls at the same time (ConcSpec) *)

Running(s) == s.pc \notin {"idle", "done"}

\* the temporary files a task has created
OwnTemps(s) == {s.videoFile, s.audioFile} \ {NoPath}

\* p is created, removed or written in the step
FileChanged(p) ==
    \/ (p \in DOMAIN fs) # (p \in DOMAIN fs')
    \/ p \in DOMAIN fs /\ p \in DOMAIN fs' /\ fs'[p] # fs[p]

\* a step touches no temporary file but those of the task that takes it
OnlyOwnTemps ==
    \A p \in DOMAIN fs \cup DOMAIN fs' :
        (p.stem = "youtube_" /\ FileChanged(p)) =>
            \E t \in Tasks : task'[t] # task[t] /\ p \in OwnTemps(task'[t])

\* C14: with two DownloadComposite calls running at the same time in one
\* directory, no temporary file belongs to both; every temporary file of a
\* running call exists and holds what that call has written to it; ffmpeg is
\* given the temporary files of the call that starts it; and a step creates,
\* writes or removes no temporary file but those of the call that takes it.
C14_OwnTempFiles ==
    /\ [](/\ \A t, u \in Tasks :
               (t # u /\ Running(task[t]) /\ Running(task[u])) =>
                   OwnTemps(task[t]) \cap OwnTemps(task[u]) = {}
          /\ \A t \in Tasks :
               LET s == task[t] IN
               Running(s) =>
                   /\ OwnTemps(s) \subseteq DOMAIN fs
                   /\ s.w.role # "" => fs[s.w.out] = SubSeq(s.w.read, 1, s.w.prog)
                   /\ s.w.role = "video" => s.w.out = s.videoFile /\ fs[s.audioFile] = <<>>
                   /\ s.w.role = "audio" => s.w.out = s.audioFile
          /\ \A i \in 1..Len(muxerCalls) :
               LET c == muxerCalls[i] IN
               c.video = task[c.task].videoFile /\ c.audio = task[c.task].audioFile)
    /\ [][OnlyOwnTemps]_vars

\* one call has returned nil and removed its temporary files while the other,
\* its two downloads written to temporary files of its own, waits for ffmpeg
C14_Witness ==
    \E t, u \in Tasks :
        /\ task[t].pc = "done" /\ task[t].result = Nil
        /\ task[u].pc = "dc_ffmpegWait"
        /\ fs[task[u].videoFile] # <<>> /\ fs[task[u].audioFile] # <<>>
        /\ OwnTemps(task[t]) \cap OwnTemps(task[u]) = {}
        /\ OwnTemps(task[t]) \cap DOMAIN fs = {}

-----------------------------------------------------------------------------
(* Properties of cancellation (Spec) *)

\* the steps of videoDLWorker in which the stream is opened or read
InFlight == {"w_GetStreamContext", "w_Copy"}

\* C15: the one context of DownloadComposite is the context of both downloads.
\* Cancelled while the video or the audio stream is being opened or read, the
\* call goes no further than that step: it returns the cancellation error,
\* ffmpeg is never started and both temporary files are removed. Cancelled
\* after ffmpeg was started, the call returns what ffmpeg's exit gives, nil or
\* its exit error, and on nil the destination has been written.
C15_Cancellation ==
    \A t \in Tasks :
        LET s == task[t] IN
        (s.op = "DownloadComposite" /\ s.cancelled) =>
            /\ s.cancelledAt \in InFlight =>
                  /\ MuxerCallsOf(t) = <<>>
                  /\ s.pc \in {s.cancelledAt, "done"}
                  /\ s.pc = "done" =>
                        /\ s.result = ErrCanceled
                        /\ s.steps[Len(s.steps)].err = ErrCanceled
                        /\ OwnTemps(s) \cap DOMAIN fs = {}
            /\ (s.cancelledAt = "dc_ffmpegWait" /\ s.pc = "done") =>
                  /\ s.steps[Len(s.steps)].step = "ffmpeg"
                  /\ s.result = s.steps[Len(s.steps)].err
                  /\ s.result \in {Nil, ErrExit}
                  /\ Len(MuxerCallsOf(t)) = 1
                  /\ s.result = Nil => s.destFile \in DOMAIN fs

\* a call cancelled while it read the audio stream, the video downloaded
C15_Witness ==
    \E t \in Tasks :
        LET s == task[t] IN
        /\ s.op = "DownloadComposite" /\ s.pc = "done"
        /\ s.cancelledAt = "w_Copy" /\ s.w.role = "audio" /\ s.w.read # <<>>
        /\ DownloadOk(s, "video") /\ s.result = ErrCanceled
        /\ s.videoFile # NoPath /\ s.audioFile # NoPath

-----------------------------------------------------------------------------
(* Properties of the return of videoDLWorker (Spec) *)

\* videoDLWorker returns nil to task t in the step
WaitReturns(t) ==
    /\ Len(task'[t].steps) = Len(task[t].steps) + 1
    /\ task'[t].steps[Len(task'[t].steps)].step = "Wait"

\* C16: videoDLWorker returns nil only from progress.Wait(), that is with the
\* copy at io.EOF, the bar complete and the renderer stopped; and an error of
\* GetStreamContext or of the copy is the last step of the call: the task
\* returns that very error and nothing is read or written after it.
C16_WaitThenReturn ==
    /\ [](\A t \in Tasks :
            LET s == task[t] IN
            /\ DownloadOk(s, s.w.role) =>
                  ~s.w.rendering /\ s.w.barCompleted /\ s.w.eof
            /\ \A i \in 1..Len(s.steps) :
                  (s.steps[i].step \in {"GetStreamContext", "Copy"} /\ s.steps[i].err # Nil) =>
                      i = Len(s.steps) /\ s.pc = "done" /\ s.result = s.steps[i].err)
    /\ [][\A t \in Tasks :
             WaitReturns(t) =>
                 /\ task[t].pc = "w_Wait" /\ task[t].w.eof
                 /\ task[t].w.barCompleted /\ task[t].w.rendering]_vars

\* a Download of a stream of unknown length has returned nil, the renderer
\* stopped
C16_Witness ==
    \E t \in Tasks :
        LET s == task[t] IN
        /\ s.op = "Download" /\ s.pc = "done" /\ s.result = Nil
        /\ s.w.size = 0 /\ Len(s.w.read) = MaxStreamLen
        /\ ~s.w.rendering /\ s.w.barCompleted

-----------------------------------------------------------------------------
(* Termination (FairSpec) *)

\* C17: every task that was started returns. In particular videoDLWorker
\* returns once its stream has reached io.EOF or failed, whatever length was
\* declared: stated as 0, or more than what the stream delivers.
C17_Terminates ==
    \A t \in Tasks : (task[t].pc # "idle") ~> (task[t].pc = "done")

\* a Download has returned nil though its stream ended short of the length declared
C17_Witness ==
    \E t \in Tasks :
        LET s == task[t] IN
        /\ s.op = "Download" /\ s.pc = "done" /\ s.result = Nil
        /\ s.w.eof /\ Len(s.w.read) < s.w.size
        /\ DownloadOk(s, "direct")

-----------------------------------------------------------------------------
(* Properties of the destination file (Spec) *)

\* whether p exists in files, and with what content
FileState(files, p) == IF p \in DOMAIN files THEN <<files[p]>> ELSE <<>>

\* task t has started ffmpeg
MuxerStarted(t) == \E i \in 1..Len(muxerCalls) : muxerCalls[i].task = t

\* C18: no step of DownloadComposite before the start of ffmpeg creates,
\* truncates or writes a file that is not one of its temporary files: up to
\* the start of ffmpeg a destination that existed is as it was, and one that
\* did not exist does not exist.
C18_DestinationUntouched ==
    [][\A t \in Tasks :
          (task'[t] # task[t] /\ task'[t].op = "DownloadComposite" /\ ~MuxerStarted(t)') =>
              \A p \in DOMAIN fs \cup DOMAIN fs' :
                  p.stem # "youtube_" => FileState(fs', p) = FileState(fs, p)]_vars

\* a call whose audio download failed, ffmpeg never started: the file that was
\* at its destination is there as it was
C18_Witness ==
    \E t \in Tasks :
        LET s == task[t] IN
        /\ s.op = "DownloadComposite" /\ s.pc = "done" /\ ~MuxerStarted(t)
        /\ DownloadOk(s, "video") /\ DownloadFailed(s, "audio")
        /\ s.destFile = OldFile /\ FileState(fs, OldFile) = <<<<9>>>>

-----------------------------------------------------------------------------
(* Properties of the destination file of Download and DownloadByItag (Spec) *)

\* the last step of s
LastStep(s) == s.steps[Len(s.steps)]

\* C19: Download and DownloadByItag create the destination, empty, before they
\* open the stream, and never remove it: from then on it exists and holds the
\* bytes written so far and nothing else, and when the call has failed at the
\* opening of the stream or in the copy it has returned that error and the
\* destination is left so, whatever it held before.
C19_DestinationLeft ==
    \A t \in Tasks :
        LET s == task[t] IN
        s.op \in {"Download", "DownloadByItag"} =>
            /\ StreamRequested(s) =>
                  \E i \in 1..Len(s.steps) :
                      /\ s.steps[i] = [step |-> "Create", role |-> "", err |-> Nil]
                      /\ s.steps[i + 1].step = "GetStreamContext"
            /\ s.w.role = "direct" =>
                  /\ s.w.out = s.destFile /\ s.destFile \in DOMAIN fs
                  /\ fs[s.destFile] = SubSeq(s.w.read, 1, s.w.prog)
            /\ (s.pc = "done" /\ s.w.role = "direct" /\ ~DownloadOk(s, "direct")) =>
                  /\ LastStep(s).step \in {"GetStreamContext", "Copy"}
                  /\ s.result = LastStep(s).err /\ s.result.kind = "error"
                  /\ LastStep(s).step = "GetStreamContext" => fs[s.destFile] = <<>>

\* a Download onto a file that existed has failed in the copy after one byte:
\* the file holds that byte
C19_Witness ==
    \E t \in Tasks :
        LET s == task[t] IN
        /\ s.op = "Download" /\ s.pc = "done" /\ s.truncated
        /\ s.result = ErrRead /\ s.w.prog = 1
        /\ s.destFile = OldFile /\ fs[OldFile] = <<s.w.read[1]>> /\ fs[OldFile] # <<9>>

====
